---- MODULE Spec2Model ----
(***************************************************************************)
(* Model of the PDF parser workbench: the five extraction backends of      *)
(* src/src/parsers.py, the Parse/Compare run of src/app.py, and the        *)
(* metrics and chunking preview of src/src/evaluation.py.                  *)
(*                                                                         *)
(* Specifications:                                                         *)
(*   Spec         the Streamlit session: PDF selection and Parse/Compare   *)
(*                runs (one script run of app.py is one step)              *)
(*   SpecBackend  one direct call of a backend function                    *)
(*   SpecMetrics  calculate_metrics applied to a text                      *)
(*   SpecChunk    get_chunking_preview applied to its parameters           *)
(***************************************************************************)
EXTENDS Integers, Sequences, FiniteSets, TLC

VARIABLES
    selected_pdf_file,      \* app.py: st.selectbox "pdf_select" (NoPdf = nothing selected)
    selected_parser_names,  \* app.py: st.multiselect "parser_select", in selection order
    page_range,             \* app.py: None (parse all pages) or (start_page, end_page)
    results_data,           \* app.py: st.session_state.results_data, insertion ordered
    calls,                  \* the backend invocations of the last run, in order
    b_call,                 \* SpecBackend: the arguments and environment of one direct call
    b_out,                  \* SpecBackend: what the call did (none before the call)
    text_content,           \* SpecMetrics: the argument of calculate_metrics
    metrics,                \* SpecMetrics: the returned dict (none before the call)
    chunk_args,             \* SpecChunk: the arguments of get_chunking_preview
    preview,                \* SpecChunk: the returned dict (none before the call)
    splitter_calls,         \* SpecChunk: number of RecursiveCharacterTextSplitter.split_text calls
    cache,                  \* SpecCache: the entries st.cache_data holds for the backends
    history,                \* SpecCache: the requests made so far and how each was served
    run_pc,                 \* SpecRun: where the script run of a Parse/Compare click is
    run_idx,                \* SpecRun: iterations of the loop completed
    current_results,        \* SpecRun: app.py's local current_results
    ng,                     \* SpecNougat: the locals of one parse_nougat call and its position
    proc,                   \* SpecNougat: the nougat subprocess
    out_dir,                \* SpecNougat: the temporary output directory on disk
    clock,                  \* SpecNougat: time.time(), and whether it was ever set back
    progress_log,           \* SpecNougat: the progress values passed to the callback
    export_in,              \* SpecExport: the argument of export_json
    export_out,             \* SpecExport: what export_json returned (none before the call)
    parsed                  \* SpecExport: what json.loads made of the returned bytes

vars == <<selected_pdf_file, selected_parser_names, page_range,
          results_data, calls, b_call, b_out,
          text_content, metrics, chunk_args, preview, splitter_calls,
          cache, history, run_pc, run_idx, current_results,
          ng, proc, out_dir, clock, progress_log,
          export_in, export_out, parsed>>

orch_vars == <<selected_pdf_file, selected_parser_names, page_range,
               results_data, calls>>
backend_vars == <<b_call, b_out>>
metrics_vars == <<text_content, metrics>>
chunk_vars == <<chunk_args, preview, splitter_calls>>
cache_vars == <<cache, history>>
run_vars == <<run_pc, run_idx, current_results>>
nougat_vars == <<ng, proc, out_dir, clock, progress_log>>
export_vars == <<export_in, export_out, parsed>>

\* what each specification leaves alone
session_frame == <<export_vars, nougat_vars, backend_vars, metrics_vars, chunk_vars, cache_vars, run_vars>>
backend_frame == <<export_vars, nougat_vars, orch_vars, metrics_vars, chunk_vars, cache_vars, run_vars>>
metrics_frame == <<export_vars, nougat_vars, orch_vars, backend_vars, chunk_vars, cache_vars, run_vars>>
chunk_frame == <<export_vars, nougat_vars, orch_vars, backend_vars, metrics_vars, cache_vars, run_vars>>
cache_frame == <<export_vars, nougat_vars, orch_vars, backend_vars, metrics_vars, chunk_vars, run_vars>>
run_frame == <<export_vars, nougat_vars, backend_vars, metrics_vars, chunk_vars, cache_vars>>
nougat_frame == <<export_vars, orch_vars, backend_vars, metrics_vars, chunk_vars, cache_vars, run_vars>>
export_frame == <<orch_vars, backend_vars, metrics_vars, chunk_vars, cache_vars, run_vars, nougat_vars>>

----------------------------------------------------------------------------
(* Bounds of the model *)

MaxPages == 3       \* page count of the largest document
MaxRangeSlack == 1  \* how far a page range may lie outside 1..page_count

----------------------------------------------------------------------------
(* Python values *)

None == "None"            \* Python None (an unset error)
NoRange == <<>>           \* page_range=None
NoPdf == "no pdf"

Max(a, b) == IF a >= b THEN a ELSE b
Min(a, b) == IF a <= b THEN a ELSE b

\* range(start, end): the integers start .. end-1, empty when start >= end
PyRange(start, end) == {p \in start .. (end - 1) : TRUE}

\* a 0-based page index as the 1-based page number the user counts in
PageNumber(page_num) == page_num + 1

\* `if page_range:` a tuple is true when it is not empty, None is false
Truthy(pr) == pr # NoRange

----------------------------------------------------------------------------
(* Extraction results.  A result dict is abstracted to                     *)
(*   keys      the keys of the dict                                        *)
(*   error     result['error']: None, or the prefix of the message that    *)
(*             names the backend or the check ("Nougat Error", ...)        *)
(*   pages     the 1-based pages whose content is in the text payload      *)
(*   metadata  result['metadata'] is populated                             *)
(*   tables    result['tables'] is populated                               *)

Res(keys, error, pages, metadata, tables) ==
    [keys |-> keys, error |-> error, pages |-> pages,
     metadata |-> metadata, tables |-> tables]

Returns(r) == [ret |-> "return", val |-> r]
\* an exception leaves the function: val carries only its type, in error
Raises(exc) == [ret |-> "raise", val |-> Res({}, exc, {}, FALSE, FALSE)]

\* no call was made
NoOutcome == [ret |-> "not called", val |-> Res({}, None, {}, FALSE, FALSE)]

PYMUPDF_KEYS == {"text", "metadata", "error"}
PDFPLUMBER_KEYS == {"text", "tables", "error"}
OCR_KEYS == {"text", "error"}
NOUGAT_KEYS == {"markdown", "latex", "error"}
GROBID_KEYS == {"metadata", "structured_text", "error"}

\* start = max(0, page_range[0] - 1)
ClampStart(pr) == Max(0, pr[1] - 1)
\* end = min(doc.page_count, page_range[1])
ClampEnd(pr, page_count) == Min(page_count, pr[2])

\* the steps of a backend call that the environment can make fail
PYMUPDF_FAULTS == {"none", "open", "page"}
PDFPLUMBER_FAULTS == {"none", "open", "page"}
OCR_FAULTS == {"none", "open", "page", "tesseract", "ocr_page"}
NOUGAT_FAULTS == {"none", "makedirs", "open", "callback", "spawn", "timeout",
                  "exit_code", "no_output", "cleanup"}
GROBID_FAULTS == {"none", "open", "connection", "http_timeout", "status"}

\* parse_pymupdf(pdf_path, page_range): no check of the clamped range
parse_pymupdf(page_count, pr, fault) ==
    LET pages_to_process ==
            IF Truthy(pr) THEN PyRange(ClampStart(pr), ClampEnd(pr, page_count))
                          ELSE PyRange(0, page_count)
    IN  IF fault = "open"
        THEN Returns(Res(PYMUPDF_KEYS, "PyMuPDF Error", {}, FALSE, FALSE))
        ELSE IF fault = "page" /\ pages_to_process # {}
        THEN \* result['metadata'] was assigned before the page loop
             Returns(Res(PYMUPDF_KEYS, "PyMuPDF Error", {}, TRUE, FALSE))
        ELSE Returns(Res(PYMUPDF_KEYS, None,
                         {PageNumber(p) : p \in pages_to_process}, TRUE, FALSE))

\* parse_pdfplumber(pdf_path, page_range)
parse_pdfplumber(page_count, pr, fault) ==
    LET start == ClampStart(pr)
        end == ClampEnd(pr, page_count)
        pages_to_process ==
            IF Truthy(pr) THEN PyRange(start, end) ELSE PyRange(0, page_count)
    IN  IF fault = "open"
        THEN Returns(Res(PDFPLUMBER_KEYS, "pdfplumber Error", {}, FALSE, FALSE))
        ELSE IF Truthy(pr) /\ start >= end
        THEN Returns(Res(PDFPLUMBER_KEYS, "Invalid page range", {}, FALSE, FALSE))
        ELSE IF fault = "page"
        THEN Returns(Res(PDFPLUMBER_KEYS, "pdfplumber Error", {}, FALSE, FALSE))
        ELSE Returns(Res(PDFPLUMBER_KEYS, None,
                         {PageNumber(p) : p \in pages_to_process}, FALSE, TRUE))

\* parse_ocr(pdf_path, lang, page_range, dpi).  has_is_open: whether the
\* document object of the installed PyMuPDF has the attribute `is_open` that
\* the outer except handler reads (without it the handler itself raises
\* AttributeError, which leaves the function).
parse_ocr(page_count, pr, fault, has_is_open) ==
    LET start == ClampStart(pr)
        end == ClampEnd(pr, page_count)
        pages_to_process ==
            IF Truthy(pr) THEN PyRange(start, end) ELSE PyRange(0, page_count)
    IN  IF fault = "open"
        THEN Returns(Res(OCR_KEYS, "OCR Workflow Error", {}, FALSE, FALSE))
        ELSE IF Truthy(pr) /\ start >= end
        THEN Returns(Res(OCR_KEYS, "Invalid page range", {}, FALSE, FALSE))
        ELSE IF fault = "page"
        THEN IF has_is_open
             THEN Returns(Res(OCR_KEYS, "OCR Workflow Error", {}, FALSE, FALSE))
             ELSE Raises("AttributeError")
        ELSE IF fault = "tesseract"
        THEN Returns(Res(OCR_KEYS, "Tesseract Error", {}, FALSE, FALSE))
        ELSE \* "ocr_page": the page's text is replaced by a marker, no error
             Returns(Res(OCR_KEYS, None,
                         {PageNumber(p) : p \in pages_to_process}, FALSE, FALSE))

\* parse_nougat(pdf_path, page_range, timeout, _progress_callback): the
\* command is `nougat pdf_path -o output_dir --no-skipping`; page_range only
\* enters total_pages of the progress message.
parse_nougat(page_count, pr, fault) ==
    IF fault = "makedirs"
    THEN Raises("OSError")      \* os.makedirs is called before the try
    ELSE IF fault \in {"open", "callback", "spawn", "timeout", "exit_code", "no_output"}
    THEN \* open, callback: `except Exception`; spawn: FileNotFoundError;
         \* timeout: the inner except, after process.kill(); exit_code:
         \* CalledProcessError; no_output: the message is built, then
         \* process.stderr[:1000] subscripts the pipe object and the TypeError
         \* is caught by `except Exception`.  Every message begins "Nougat Error".
         Returns(Res(NOUGAT_KEYS, "Nougat Error", {}, FALSE, FALSE))
    ELSE \* "none", and "cleanup": that failure is reported with st.warning only
         Returns(Res(NOUGAT_KEYS \cup {"latex_blocks", "latex_equations_count"},
                     None, {PageNumber(p) : p \in PyRange(0, page_count)},
                     FALSE, FALSE))

\* parse_grobid(pdf_path, grobid_url): the whole document is posted
parse_grobid(page_count, fault) ==
    IF fault \in {"open", "connection", "http_timeout", "status"}
    THEN Returns(Res(GROBID_KEYS, "GROBID Error", {}, FALSE, FALSE))
    ELSE Returns(Res(GROBID_KEYS, None,
                     {PageNumber(p) : p \in PyRange(0, page_count)}, FALSE, FALSE))

----------------------------------------------------------------------------
(* SpecBackend: one direct call of a backend function *)

BACKENDS == {"parse_pymupdf", "parse_pdfplumber", "parse_ocr", "parse_nougat",
             "parse_grobid"}

FaultsOf(fn) ==
    CASE fn = "parse_pymupdf" -> PYMUPDF_FAULTS
      [] fn = "parse_pdfplumber" -> PDFPLUMBER_FAULTS
      [] fn = "parse_ocr" -> OCR_FAULTS
      [] fn = "parse_nougat" -> NOUGAT_FAULTS
      [] fn = "parse_grobid" -> GROBID_FAULTS

\* the page ranges a caller can pass: None and every pair of integers near
\* the pages of the document
RangeValues == (0 - MaxRangeSlack) .. (MaxPages + MaxRangeSlack)
PageRanges == {NoRange} \cup (RangeValues \X RangeValues)

BackendCalls ==
    {c \in [fn : BACKENDS, page_count : 1 .. MaxPages, page_range : PageRanges,
            fault : NOUGAT_FAULTS \cup OCR_FAULTS \cup GROBID_FAULTS,
            has_is_open : BOOLEAN] :
        /\ c.fault \in FaultsOf(c.fn)
        /\ (c.fn # "parse_ocr" => c.has_is_open)
        /\ (c.fn = "parse_grobid" => c.page_range = NoRange)}

NoCall == [fn |-> "none", page_count |-> 0, page_range |-> NoRange,
           fault |-> "none", has_is_open |-> TRUE]

InitBackend ==
    /\ b_call \in BackendCalls
    /\ b_out = NoOutcome

CallPymupdf ==
    /\ b_out = NoOutcome /\ b_call.fn = "parse_pymupdf"
    /\ b_out' = parse_pymupdf(b_call.page_count, b_call.page_range, b_call.fault)
    /\ UNCHANGED b_call

CallPdfplumber ==
    /\ b_out = NoOutcome /\ b_call.fn = "parse_pdfplumber"
    /\ b_out' = parse_pdfplumber(b_call.page_count, b_call.page_range, b_call.fault)
    /\ UNCHANGED b_call

CallOcr ==
    /\ b_out = NoOutcome /\ b_call.fn = "parse_ocr"
    /\ b_out' = parse_ocr(b_call.page_count, b_call.page_range, b_call.fault,
                          b_call.has_is_open)
    /\ UNCHANGED b_call

CallNougat ==
    /\ b_out = NoOutcome /\ b_call.fn = "parse_nougat"
    /\ b_out' = parse_nougat(b_call.page_count, b_call.page_range, b_call.fault)
    /\ UNCHANGED b_call

CallGrobid ==
    /\ b_out = NoOutcome /\ b_call.fn = "parse_grobid"
    /\ b_out' = parse_grobid(b_call.page_count, b_call.fault)
    /\ UNCHANGED b_call

----------------------------------------------------------------------------
(* calculate_metrics (src/src/evaluation.py).  A Python string is the       *)
(* sequence of its characters; the argument is [is_str, chars].            *)

MaxEqLen == 5       \* longest text over the characters of math spans
MaxLines == 2       \* most lines of a text built from header-like lines
HeaderMaxLevel == 6 \* the {1,6} of the header pattern

Str(chars) == [is_str |-> TRUE, chars |-> chars]
NotAString == [is_str |-> FALSE, chars |-> <<>>]

NL == "\n"
BACKSLASH == "\\"
\* the characters \s matches, among those the texts are built from
WS == {" ", "\t", NL}
DIGITS == {"0", "1", "2", "3", "4", "5", "6", "7", "8", "9"}

\* first position from q on whose character is not in S (Len(t) + 1 if none)
RunEnd(t, q, S) ==
    CHOOSE r \in q .. (Len(t) + 1) :
        /\ (r = Len(t) + 1 \/ t[r] \notin S)
        /\ \A k \in q .. (r - 1) : t[k] \in S

\* first position from q on whose character is in S (Len(t) + 1 if none)
Until(t, q, S) ==
    CHOOSE r \in q .. (Len(t) + 1) :
        /\ (r = Len(t) + 1 \/ t[r] \in S)
        /\ \A k \in q .. (r - 1) : t[k] \notin S

\* len(text_content.split()): the maximal runs of non-whitespace
WordCount(t) ==
    Cardinality({i \in 1 .. Len(t) : t[i] \notin WS /\ (i = 1 \/ t[i - 1] \in WS)})

\* (?<!\\)\$ at position i
UnescapedDollar(t, i) ==
    /\ i >= 1 /\ i <= Len(t)
    /\ t[i] = "$"
    /\ (i = 1 \/ t[i - 1] # BACKSLASH)

\* r'(?<!\\)\$.*?(?<!\\)\$' from position i: the position of the closing $
\* (0: no match).  `.` does not match a newline, `.*?` takes the nearest.
InlineMatchAt(t, i) ==
    IF ~UnescapedDollar(t, i) THEN 0
    ELSE LET closing == {j \in (i + 1) .. Len(t) :
                            /\ UnescapedDollar(t, j)
                            /\ \A k \in (i + 1) .. (j - 1) : t[k] # NL}
         IN  IF closing = {} THEN 0
             ELSE CHOOSE j \in closing : \A j2 \in closing : j <= j2

\* r'(?<!\\)\$\$.*?(?<!\\)\$\$' with re.DOTALL from position i: the position
\* of the last character of the match (0: no match)
DisplayMatchAt(t, i) ==
    IF ~(UnescapedDollar(t, i) /\ i + 1 <= Len(t) /\ t[i + 1] = "$") THEN 0
    ELSE LET closing == {j \in (i + 2) .. (Len(t) - 1) :
                            UnescapedDollar(t, j) /\ t[j + 1] = "$"}
         IN  IF closing = {} THEN 0
             ELSE (CHOOSE j \in closing : \A j2 \in closing : j <= j2) + 1

EqMatchAt(t, i, display) == IF display THEN DisplayMatchAt(t, i) ELSE InlineMatchAt(t, i)

\* len(re.findall(pattern, text)): leftmost matches, each search starting
\* after the previous match
RECURSIVE CountEquations(_, _, _)
CountEquations(t, pos, display) ==
    LET starts == {i \in pos .. Len(t) : EqMatchAt(t, i, display) # 0}
    IN  IF starts = {} THEN 0
        ELSE LET i == CHOOSE i \in starts : \A i2 \in starts : i <= i2
             IN  1 + CountEquations(t, EqMatchAt(t, i, display) + 1, display)

\* ^ under re.MULTILINE: the start of the text or just after a newline
LineStart(t, p) == p = 1 \/ (p >= 2 /\ p <= Len(t) + 1 /\ t[p - 1] = NL)

\* the patterns without their leading \s*
SectionMatchAtNoIndent(t, p, header) ==
    LET m == IF header THEN RunEnd(t, p, {"#"}) ELSE RunEnd(t, p, DIGITS)
        marker_ok ==
            IF header THEN m - p >= 1 /\ m - p <= HeaderMaxLevel
                      ELSE m - p >= 1 /\ m <= Len(t) /\ t[m] = "."
        s0 == IF header THEN m ELSE m + 1
    IN  IF ~LineStart(t, p) \/ ~marker_ok THEN 0
        ELSE IF ~(s0 <= Len(t) /\ t[s0] \in WS) THEN 0
        ELSE Until(t, RunEnd(t, s0, WS), {NL})

\* r'^\s*#{1,6}\s+.*' (header TRUE) and r'^\s*\d+\.\s+.*' (header FALSE) at
\* the line start p: the position after the match (0: no match).  \s* and
\* \s+ also run over newlines; .* stops at the next newline.
SectionMatchAt(t, p, header) ==
    LET q == RunEnd(t, p, WS)
        m == IF header THEN RunEnd(t, q, {"#"}) ELSE RunEnd(t, q, DIGITS)
        marker_ok ==
            IF header THEN m - q >= 1 /\ m - q <= HeaderMaxLevel
                      ELSE m - q >= 1 /\ m <= Len(t) /\ t[m] = "."
        s0 == IF header THEN m ELSE m + 1
    IN  IF ~LineStart(t, p) \/ ~marker_ok THEN 0
        ELSE IF ~(s0 <= Len(t) /\ t[s0] \in WS) THEN 0
        ELSE Until(t, RunEnd(t, s0, WS), {NL})

RECURSIVE CountSections(_, _, _)
CountSections(t, pos, header) ==
    LET starts == {p \in pos .. (Len(t) + 1) : SectionMatchAt(t, p, header) # 0}
    IN  IF starts = {} THEN 0
        ELSE LET p == CHOOSE p \in starts : \A p2 \in starts : p <= p2
                 e == SectionMatchAt(t, p, header)
             IN  1 + CountSections(t, IF e > p THEN e ELSE p + 1, header)

NoMetrics == [keys |-> {}, error |-> None, char_count |-> 0, word_count |-> 0,
              estimated_equation_count |-> 0, estimated_section_count |-> 0]

calculate_metrics(text) ==
    IF ~text.is_str
    THEN [NoMetrics EXCEPT !.keys = {"error"}, !.error = "Input must be a string"]
    ELSE LET t == text.chars
             inline_eq_count == CountEquations(t, 1, FALSE)
             display_eq_count == CountEquations(t, 1, TRUE)
             section_count == CountSections(t, 1, TRUE) + CountSections(t, 1, FALSE)
         IN  [keys |-> {"char_count", "word_count", "estimated_equation_count",
                        "estimated_section_count"},
              error |-> None,
              char_count |-> Len(t),
              word_count |-> WordCount(t),
              estimated_equation_count |-> inline_eq_count + display_eq_count,
              estimated_section_count |-> section_count]

\* the texts of SpecMetrics: every text of at most MaxEqLen characters of
\* math spans, and every text of at most MaxLines header-like lines
EQ_CHARS == {"$", BACKSLASH, "x", NL}
EqTexts == UNION {[1 .. n -> EQ_CHARS] : n \in 0 .. MaxEqLen}

Hashes(n) == [i \in 1 .. n |-> "#"]
LINE_INDENTS == {<<>>, <<" ">>}
LINE_MARKERS == {<<>>, Hashes(1), Hashes(HeaderMaxLevel), Hashes(HeaderMaxLevel + 1),
                 <<"1", ".">>, <<"1", "2", ".">>}
LINE_SEPS == {<<>>, <<" ">>}
LINE_RESTS == {<<>>, <<"a">>}
SectionLines ==
    {i \o m \o sp \o r : i \in LINE_INDENTS, m \in LINE_MARKERS,
                         sp \in LINE_SEPS, r \in LINE_RESTS}

\* "\n".join(lines)
RECURSIVE JoinLines(_)
JoinLines(lines) ==
    IF Len(lines) = 0 THEN <<>>
    ELSE IF Len(lines) = 1 THEN lines[1]
    ELSE lines[1] \o <<NL>> \o JoinLines(Tail(lines))

SectionTexts ==
    {JoinLines(ls) \o e : ls \in UNION {[1 .. n -> SectionLines] : n \in 1 .. MaxLines},
                          e \in {<<>>, <<NL>>}}

MetricsInputs == {NotAString} \cup {Str(t) : t \in EqTexts \cup SectionTexts}

CalculateMetrics ==
    /\ metrics = NoMetrics
    /\ metrics' = calculate_metrics(text_content)
    /\ UNCHANGED text_content

----------------------------------------------------------------------------
(* get_chunking_preview (src/src/evaluation.py).  The splitter is the       *)
(* external RecursiveCharacterTextSplitter: `splitter` is what its         *)
(* construction and split_text do for the call, an exception or the        *)
(* number of chunks returned.                                              *)

MaxChunkSize == 3   \* largest chunk_size and, plus one, chunk_overlap
MaxPreview == 2     \* largest max_preview_chunks
MaxChunks == 3      \* most chunks the splitter returns

SPLITTER_RAISES == 0 - 1
NoArgs == [is_str |-> TRUE, strategy |-> "none", chunk_size |-> 0, chunk_overlap |-> 0,
           max_preview_chunks |-> 0, splitter |-> 0]
NoPreview == [ret |-> "not called", chunks |-> <<>>, total_chunks |-> 0, error |-> None,
              split_calls |-> 0]

ChunkArgs ==
    [is_str : BOOLEAN, strategy : {"recursive", "semantic"},
     chunk_size : (0 - 1) .. MaxChunkSize,
     chunk_overlap : (0 - 1) .. (MaxChunkSize + 1),
     max_preview_chunks : 0 .. MaxPreview,
     splitter : {SPLITTER_RAISES} \cup (0 .. MaxChunks)]

\* chunks[:n] for n >= 0
PyPrefix(seq, n) == SubSeq(seq, 1, Min(n, Len(seq)))

\* the preview dict, with the number of split_text calls made on the way
Preview(chunks, total, error, split_calls) ==
    [ret |-> "return", chunks |-> chunks, total_chunks |-> total, error |-> error,
     split_calls |-> split_calls]

\* a validation that lets chunk_overlap = chunk_size through
ValidationErrorLax(a) ==
    IF ~a.is_str THEN "Input text must be a string"
    ELSE IF a.chunk_size <= 0 THEN "Chunk size must be positive"
    ELSE IF a.chunk_overlap < 0 THEN "Chunk overlap cannot be negative"
    ELSE IF a.chunk_overlap > a.chunk_size
    THEN "Chunk overlap must be smaller than chunk size"
    ELSE None

\* the four checks before the try, in their order: the message of the first
\* one that fails, None when all pass
ValidationError(a) ==
    IF ~a.is_str THEN "Input text must be a string"
    ELSE IF a.chunk_size <= 0 THEN "Chunk size must be positive"
    ELSE IF a.chunk_overlap < 0 THEN "Chunk overlap cannot be negative"
    ELSE IF a.chunk_overlap >= a.chunk_size
    THEN "Chunk overlap must be smaller than chunk size"
    ELSE None

\* a preview that counts the chunks after truncating them
SplitPreviewCountsShown(chunks, max_preview_chunks) ==
    Preview(PyPrefix(chunks, max_preview_chunks),
            Len(PyPrefix(chunks, max_preview_chunks)), None, 1)

\* preview['chunks'] = chunks[:max_preview_chunks]
\* preview['total_chunks'] = len(chunks)
SplitPreview(chunks, max_preview_chunks) ==
    Preview(PyPrefix(chunks, max_preview_chunks), Len(chunks), None, 1)

get_chunking_preview(a) ==
    IF ValidationError(a) # None THEN Preview(<<>>, 0, ValidationError(a), 0)
    ELSE IF a.strategy = "recursive"
    THEN IF a.splitter = SPLITTER_RAISES
         THEN \* `except Exception as e`
              Preview(<<>>, 0, "Chunking Error", 1)
         ELSE SplitPreview([i \in 1 .. a.splitter |-> i], a.max_preview_chunks)
    ELSE Preview(<<>>, 0, "Unknown or unimplemented chunking strategy", 0)

GetChunkingPreview ==
    /\ preview = NoPreview
    /\ chunk_args # NoArgs
    /\ preview' = get_chunking_preview(chunk_args)
    /\ splitter_calls' = splitter_calls + preview'.split_calls
    /\ UNCHANGED chunk_args

----------------------------------------------------------------------------
(* Spec: the Streamlit session of app.py *)

MaxUiPage == 1      \* largest page number the user enters in the sidebar

\* PARSER_OPTIONS, in the order of the dict
PARSER_NAMES == <<"PyMuPDF", "pdfplumber", "OCR (Tesseract)", "Nougat", "GROBID">>
PARSER_OPTIONS ==
    [n \in {PARSER_NAMES[i] : i \in 1 .. Len(PARSER_NAMES)} |->
        CASE n = "PyMuPDF" -> "parse_pymupdf"
          [] n = "pdfplumber" -> "parse_pdfplumber"
          [] n = "OCR (Tesseract)" -> "parse_ocr"
          [] n = "Nougat" -> "parse_nougat"
          [] n = "GROBID" -> "parse_grobid"]

FALLBACK_KEY == "OCR Fallback"

\* the files of PDF_DIR and their page counts
PDF_FILES == {"a.pdf", "b.pdf"}
PageCountOf(f) == IF f = "a.pdf" THEN 1 ELSE MaxPages

\* st.multiselect with max_selections=2: one or two distinct names, in the
\* order of selection (the button is disabled for an empty selection)
Selections ==
    {<<n>> : n \in DOMAIN PARSER_OPTIONS}
    \cup {<<n, m>> : <<n, m>> \in
            {nm \in (DOMAIN PARSER_OPTIONS) \X (DOMAIN PARSER_OPTIONS) : nm[1] # nm[2]}}

\* "Parse all pages" checked gives None; otherwise start_page has min_value=1
\* and end_page has min_value=start_page
UiPageRanges ==
    {NoRange} \cup {r \in (1 .. MaxUiPage) \X (1 .. MaxUiPage) : r[1] <= r[2]}

\* a dict as the sequence of its items in insertion order
DictKeys(d) == {d[i].key : i \in 1 .. Len(d)}
DictGet(d, k) == (CHOOSE i \in 1 .. Len(d) : d[i].key = k)
DictVal(d, k) == d[DictGet(d, k)].val
\* d[k] = v: an existing key keeps its position
DictSet(d, k, v) ==
    IF k \in DictKeys(d)
    THEN [d EXCEPT ![DictGet(d, k)] = [key |-> k, val |-> v]]
    ELSE Append(d, [key |-> k, val |-> v])

\* {'error': f"Failed to execute parser '{parser_name}': {e}"}
ExecError(parser_name) ==
    Res({"error"},
        CASE parser_name = "PyMuPDF" -> "Failed to execute parser 'PyMuPDF'"
          [] parser_name = "pdfplumber" -> "Failed to execute parser 'pdfplumber'"
          [] parser_name = "OCR (Tesseract)" -> "Failed to execute parser 'OCR (Tesseract)'"
          [] parser_name = "Nougat" -> "Failed to execute parser 'Nougat'"
          [] parser_name = "GROBID" -> "Failed to execute parser 'GROBID'",
        {}, FALSE, FALSE)

\* data.get('error'): None and a missing key are false
HasError(r) == r.error # None

\* what parser_func(**params) can do for a document and the common page
\* range; GROBID's params have page_range deleted
OutcomesOf(fn, page_count, pr) ==
    CASE fn = "parse_pymupdf" ->
            {parse_pymupdf(page_count, pr, f) : f \in PYMUPDF_FAULTS}
      [] fn = "parse_pdfplumber" ->
            {parse_pdfplumber(page_count, pr, f) : f \in PDFPLUMBER_FAULTS}
      [] fn = "parse_ocr" ->
            {parse_ocr(page_count, pr, f, h) : f \in OCR_FAULTS, h \in BOOLEAN}
      [] fn = "parse_nougat" ->
            {parse_nougat(page_count, pr, f) : f \in NOUGAT_FAULTS}
      [] fn = "parse_grobid" ->
            {parse_grobid(page_count, f) : f \in GROBID_FAULTS}

\* the condition of the fallback: Nougat returned a result with an error and
\* OCR is registered
FallbackApplies(parser_name, out) ==
    /\ parser_name = "Nougat"
    /\ out.ret = "return"
    /\ HasError(out.val)
    /\ "OCR (Tesseract)" \in DOMAIN PARSER_OPTIONS

\* the environment of one loop iteration: what the parser call does and,
\* where the fallback runs, what parse_ocr does
IterationEnvs(parser_name, page_count, pr) ==
    {[out |-> o, fb |-> f] :
        <<o, f>> \in {of \in OutcomesOf(PARSER_OPTIONS[parser_name], page_count, pr)
                             \X (OutcomesOf("parse_ocr", page_count, pr) \cup {NoOutcome}) :
                        (of[2] # NoOutcome) <=> FallbackApplies(parser_name, of[1])}}

RunEnvs(names, page_count, pr) ==
    IF Len(names) = 1
    THEN {<<e>> : e \in IterationEnvs(names[1], page_count, pr)}
    ELSE {<<e1, e2>> : <<e1, e2>> \in IterationEnvs(names[1], page_count, pr)
                                       \X IterationEnvs(names[2], page_count, pr)}

\* one invocation in the log of the run: params carries the pdf_path of
\* common_params, the file selected when the button was clicked
Invocation(key, fn, out) ==
    [key |-> key, fn |-> fn, pdf_path |-> selected_pdf_file,
     ret |-> out.ret, val |-> out.val]

\* a loop body that loses the result of a parser whose call raised
OnRaiseDropped(st, parser_name, env) ==
    [results |-> st.results,
     log |-> Append(st.log, Invocation(parser_name, PARSER_OPTIONS[parser_name], env.out))]

\* `except Exception as e:` when parser_func(**params) itself raised
OnRaise(st, parser_name, env) ==
    [results |-> DictSet(st.results, parser_name, ExecError(parser_name)),
     log |-> Append(st.log, Invocation(parser_name, PARSER_OPTIONS[parser_name], env.out))]

\* the try block when parser_func(**params) returned: the result is stored,
\* then the fallback runs inside the same try, so that an exception of
\* parse_ocr reaches the except clause, which overwrites the entry of
\* parser_name
OnReturn(st, parser_name, env) ==
    LET log1 == Append(st.log, Invocation(parser_name, PARSER_OPTIONS[parser_name], env.out))
        cur1 == DictSet(st.results, parser_name, env.out.val)
    IN  IF FallbackApplies(parser_name, env.out)
        THEN LET log2 == Append(log1, Invocation(FALLBACK_KEY, "parse_ocr", env.fb))
             IN  IF env.fb.ret = "raise"
                 THEN [results |-> DictSet(cur1, parser_name, ExecError(parser_name)),
                       log |-> log2]
                 ELSE [results |-> DictSet(cur1, FALLBACK_KEY, env.fb.val),
                       log |-> log2]
        ELSE [results |-> cur1, log |-> log1]

\* the body of `for parser_name in selected_parser_names`.  st is
\* [results: current_results, log: the invocations so far].
LoopBody(st, parser_name, env) ==
    IF env.out.ret = "raise" THEN OnRaise(st, parser_name, env)
                             ELSE OnReturn(st, parser_name, env)

\* the for loop, from current_results = {}
RECURSIVE RunLoop(_, _, _, _)
RunLoop(st, names, envs, i) ==
    IF i > Len(names) THEN st
    ELSE RunLoop(LoopBody(st, names[i], envs[i]), names, envs, i + 1)

----------------------------------------------------------------------------
(* The display, evaluation and export sections of app.py, which every      *)
(* script run computes from st.session_state.results_data.  A text blob    *)
(* taken from a result is [key: the key it was read from, pages: the pages *)
(* whose content it holds]; it is true (a non-empty string) when it holds  *)
(* the content of a page.                                                  *)

TEXT_KEYS == {"text", "markdown", "structured_text"}

\* the '' that ends a chain of data.get calls
EmptyStr == [key |-> "''", pages |-> {}]

\* data.get(key, default): the value under key when the dict has the key,
\* whatever the value; default otherwise
PyGet(data, key, default) ==
    IF key \in data.keys THEN [key |-> key, pages |-> data.pages] ELSE default

\* `'key' in data and data['key']` for a text payload
HasText(data, key) == key \in data.keys /\ key \in TEXT_KEYS /\ data.pages # {}

\* primary_text = data.get('markdown', data.get('text', data.get('structured_text', '')))
MetricsText(data) ==
    PyGet(data, "markdown", PyGet(data, "text", PyGet(data, "structured_text", EmptyStr)))

\* text1 = results_data[name].get('markdown', results_data[name].get('text', ''))
DiffText(data) == PyGet(data, "markdown", PyGet(data, "text", EmptyStr))

\* source_text = source_data.get('markdown', source_data.get('text',
\*                                source_data.get('structured_text', '')))
ChunkSourceText(data) ==
    PyGet(data, "markdown", PyGet(data, "text", PyGet(data, "structured_text", EmptyStr)))

\* primary_text_for_docx = data_to_export.get('markdown', data_to_export.get('text', ''))
DocxText(data) == PyGet(data, "markdown", PyGet(data, "text", EmptyStr))

NothingShown == [shown |-> FALSE, error |-> None, content |-> {}, metrics_of |-> EmptyStr]

\* a display that goes on to the content of a result with an error
display_parser_output_unguarded(data) ==
    [shown |-> TRUE,
     error |-> data.error,
     content |-> {k \in TEXT_KEYS : HasText(data, k)}
                 \cup (IF "tables" \in data.keys /\ data.tables THEN {"tables"} ELSE {})
                 \cup (IF "metadata" \in data.keys /\ data.metadata THEN {"metadata"} ELSE {}),
     metrics_of |-> IF MetricsText(data).pages # {} THEN MetricsText(data) ELSE EmptyStr]

\* display_parser_output(parser_name, data): the error and nothing else for
\* a result with an error; otherwise every populated field and, for a true
\* primary_text, the metrics of it
display_parser_output(data) ==
    IF HasError(data)
    THEN [shown |-> TRUE, error |-> data.error, content |-> {}, metrics_of |-> EmptyStr]
    ELSE [shown |-> TRUE,
          error |-> None,
          content |-> {k \in TEXT_KEYS : HasText(data, k)}
                      \cup (IF "tables" \in data.keys /\ data.tables THEN {"tables"} ELSE {})
                      \cup (IF "metadata" \in data.keys /\ data.metadata THEN {"metadata"} ELSE {}),
          metrics_of |-> IF MetricsText(data).pages # {} THEN MetricsText(data) ELSE EmptyStr]

\* `if len(parser_names) == 1: ... elif len(parser_names) == 2: ...`: what is
\* displayed for the i-th entry of the stored ResultSet
Displayed(results, i) ==
    IF Len(results) \in {1, 2} THEN display_parser_output(results[i].val)
                               ELSE NothingShown

\* the diff view: an HTML diff of the two texts is generated in the else
\* branch only
DiffGenerated(results) ==
    /\ Len(results) = 2
    /\ ~(DiffText(results[1].val).pages = {} /\ DiffText(results[2].val).pages = {})
    /\ ~(HasError(results[1].val) \/ HasError(results[2].val))

\* the chunking preview for the entry the radio button selects (the first
\* entry when there is one entry): get_chunking_preview is called in the
\* else branch only
ChunkPreviewOf(results, i) ==
    LET source_data == results[i].val
    IN  IF ChunkSourceText(source_data).pages = {} \/ HasError(source_data)
        THEN EmptyStr
        ELSE ChunkSourceText(source_data)

\* `if selected_pdf_path:` and `if st.session_state.results_data:`: the
\* ResultSet the script run displays and offers for export
ResultsShown ==
    IF selected_pdf_file # NoPdf /\ results_data # <<>> THEN results_data ELSE <<>>

\* base_filename = get_safe_filename(f"{os.path.splitext(selected_pdf_file)[0]}_{parser_name}"):
\* the file and the key it is made of
BaseFilename(parser_name) == [pdf |-> selected_pdf_file, parser |-> parser_name]

\* the download buttons of one entry: `continue` for a result with an error
ExportsOf(data) ==
    IF HasError(data) THEN {}
    ELSE (IF HasText(data, "text") THEN {"text.txt"} ELSE {})
         \cup (IF HasText(data, "markdown") THEN {"markdown.md"} ELSE {})
         \cup (IF HasText(data, "structured_text") THEN {"structured.xml"} ELSE {})
         \cup (IF "metadata" \in data.keys /\ data.metadata THEN {"metadata.json"} ELSE {})
         \cup (IF "tables" \in data.keys /\ data.tables THEN {"tables.json"} ELSE {})
         \cup (IF DocxText(data).pages # {} THEN {".docx"} ELSE {})

----------------------------------------------------------------------------
(* SpecNougat: one call of parse_nougat (src/src/parsers.py), statement by  *)
(* statement, with the clock, the subprocess and the output directory as   *)
(* the environment.  Time is counted in seconds.                           *)

MaxClock == 3       \* the clock runs from 0 to MaxClock
MaxTimeout == 2     \* largest timeout, in seconds

\* progress values are kept in units of 1/(PROGRESS_SCALE * timeout)
PROGRESS_SCALE == 10
PROGRESS_CAP == 9   \* min(0.9, ...), in tenths

\* what the nougat command can leave in the output directory
MMD_FILE == "<stem>.mmd"
TOOL_LEAVINGS == {{}, {MMD_FILE}, {MMD_FILE, "other file"}, {"subdirectory"},
                  {MMD_FILE, "subdirectory"}}

NoNg == [pc |-> "not called", timeout |-> 0, has_callback |-> FALSE, start_time |-> 0,
         error |-> None, markdown |-> "", kill_calls |-> 0, iterations |-> 0]
NoProc == [state |-> "none", returncode |-> 0, exit_time |-> 0, left |-> {}]
NoDir == [exists |-> FALSE, items |-> {}]
ClockAtZero == [now |-> 0, went_back |-> FALSE]

IdleNougat ==
    /\ ng = NoNg /\ proc = NoProc /\ out_dir = NoDir
    /\ clock = ClockAtZero /\ progress_log = <<>>

\* the except clauses and the finally: the error is set and control goes to
\* the cleanup
Fail(locals, message) == [locals EXCEPT !.error = message, !.pc = "finally"]

\* output_dir = f"temp_nougat_output_{int(time.time())}"; os.makedirs(...),
\* before the try
NgMakedirs ==
    /\ ng.pc = "makedirs"
    /\ \/ /\ out_dir' = [exists |-> TRUE, items |-> {}]
          /\ ng' = [ng EXCEPT !.pc = "open_doc"]
       \/ /\ ng' = [ng EXCEPT !.pc = "raised"]     \* OSError leaves the function
          /\ UNCHANGED out_dir
    /\ UNCHANGED <<proc, clock, progress_log>>

\* doc = fitz.open(pdf_path) ... doc.close()
NgOpenDoc ==
    /\ ng.pc = "open_doc"
    /\ \/ ng' = [ng EXCEPT !.pc = "first_callback"]
       \/ ng' = Fail(ng, "Nougat Error: An unexpected error occurred")
    /\ UNCHANGED <<proc, out_dir, clock, progress_log>>

\* if _progress_callback: _progress_callback(0, "Starting processing ...")
NgFirstCallback ==
    /\ ng.pc = "first_callback"
    /\ IF ng.has_callback
       THEN \/ /\ progress_log' = Append(progress_log, 0)
               /\ ng' = [ng EXCEPT !.pc = "popen"]
            \/ /\ progress_log' = Append(progress_log, 0)   \* the callback raised
               /\ ng' = Fail(ng, "Nougat Error: An unexpected error occurred")
       ELSE /\ ng' = [ng EXCEPT !.pc = "popen"]
            /\ UNCHANGED progress_log
    /\ UNCHANGED <<proc, out_dir, clock>>

\* start_time = time.time(); process = subprocess.Popen(command, ...)
NgPopen ==
    /\ ng.pc = "popen"
    /\ \/ /\ proc' = [NoProc EXCEPT !.state = "running"]
          /\ ng' = [ng EXCEPT !.start_time = clock.now, !.pc = "loop_progress"]
       \/ /\ ng' = Fail([ng EXCEPT !.start_time = clock.now],
                        "Nougat Error: 'nougat' command not found")
          /\ UNCHANGED proc
    /\ UNCHANGED <<out_dir, clock, progress_log>>

\* progress = min(0.9, elapsed / timeout)
ProgressOf(elapsed, timeout) ==
    Min(PROGRESS_CAP * timeout, PROGRESS_SCALE * elapsed)

\* the head of the while loop: the progress callback
NgLoopProgress ==
    /\ ng.pc = "loop_progress"
    /\ IF ng.has_callback
       THEN LET progress == ProgressOf(clock.now - ng.start_time, ng.timeout)
            IN  /\ progress_log' = Append(progress_log, progress)
                /\ \/ ng' = [ng EXCEPT !.pc = "loop_check", !.iterations = @ + 1]
                   \/ ng' = Fail([ng EXCEPT !.iterations = @ + 1],
                                 "Nougat Error: An unexpected error occurred")
       ELSE /\ ng' = [ng EXCEPT !.pc = "loop_check", !.iterations = @ + 1]
            /\ UNCHANGED progress_log
    /\ UNCHANGED <<proc, out_dir, clock>>

\* a check that lets the process run on after the deadline
NgLoopCheckNoKill ==
    /\ ng.pc = "loop_check"
    /\ IF clock.now - ng.start_time > ng.timeout
       THEN /\ ng' = Fail(ng, "Nougat Error: Processing timed out")
            /\ UNCHANGED <<proc, out_dir>>
       ELSE /\ ng' = [ng EXCEPT !.pc = "loop_poll"]
            /\ UNCHANGED <<proc, out_dir>>
    /\ UNCHANGED <<clock, progress_log>>

\* if time.time() - start_time > timeout: process.kill(); raise
\* TimeoutExpired, which the inner except turns into the timeout error and
\* `return result`.  A process that is killed leaves what it wrote so far.
NgLoopCheck ==
    /\ ng.pc = "loop_check"
    /\ IF clock.now - ng.start_time > ng.timeout
       THEN /\ ng' = Fail([ng EXCEPT !.kill_calls = @ + 1],
                          "Nougat Error: Processing timed out")
            /\ IF proc.state = "running"
               THEN \E left \in {{}, {"subdirectory"}} :
                       /\ proc' = [proc EXCEPT !.state = "killed", !.exit_time = clock.now,
                                               !.left = left]
                       /\ out_dir' = [out_dir EXCEPT !.items = @ \cup left]
               ELSE UNCHANGED <<proc, out_dir>>
       ELSE /\ ng' = [ng EXCEPT !.pc = "loop_poll"]
            /\ UNCHANGED <<proc, out_dir>>
    /\ UNCHANGED <<clock, progress_log>>

\* if process.poll() is not None: break
NgLoopPoll ==
    /\ ng.pc = "loop_poll"
    /\ ng' = [ng EXCEPT !.pc = IF proc.state = "running" THEN "loop_sleep"
                                                         ELSE "check_returncode"]
    /\ UNCHANGED <<proc, out_dir, clock, progress_log>>

\* time.sleep(1)
NgSleep ==
    /\ ng.pc = "loop_sleep"
    /\ clock.now < MaxClock
    /\ clock' = [clock EXCEPT !.now = @ + 1]
    /\ ng' = [ng EXCEPT !.pc = "loop_progress"]
    /\ UNCHANGED <<proc, out_dir, progress_log>>

\* if process.returncode != 0: raise CalledProcessError
NgCheckReturncode ==
    /\ ng.pc = "check_returncode"
    /\ ng' = IF proc.returncode # 0
             THEN Fail(ng, "Nougat Error: Process failed with exit code")
             ELSE [ng EXCEPT !.pc = "read_output"]
    /\ UNCHANGED <<proc, out_dir, clock, progress_log>>

\* if os.path.exists(output_mmd_path): read it; else the error, whose
\* details (process.stderr[:1000]) end in `except Exception`
NgReadOutput ==
    /\ ng.pc = "read_output"
    /\ IF out_dir.exists /\ MMD_FILE \in out_dir.items
       THEN \/ ng' = [ng EXCEPT !.markdown = "content of <stem>.mmd", !.pc = "finally"]
            \/ ng' = Fail(ng, "Nougat Error: An unexpected error occurred")
       ELSE ng' = Fail(ng, "Nougat Error: An unexpected error occurred")
    /\ UNCHANGED <<proc, out_dir, clock, progress_log>>

\* the finally clause: the files of the directory are removed one by one,
\* then os.rmdir, which fails on a directory that is not empty
CleanedUp(d) ==
    IF ~d.exists THEN d
    ELSE IF "subdirectory" \in d.items
    THEN [exists |-> TRUE, items |-> {"subdirectory"}]
    ELSE [exists |-> FALSE, items |-> {}]

\* finally: cleanup (a failure of it is reported with st.warning), then
\* `return result`
NgCleanup ==
    /\ ng.pc = "finally"
    /\ out_dir' = CleanedUp(out_dir)
    /\ ng' = [ng EXCEPT !.pc = "returned"]
    /\ UNCHANGED <<proc, clock, progress_log>>

\* the environment: the subprocess exits by itself, leaving `left` in the
\* output directory
ProcExit(returncode, left) ==
    /\ proc.state = "running"
    /\ proc' = [state |-> "exited", returncode |-> returncode, exit_time |-> clock.now,
                 left |-> left]
    /\ out_dir' = IF out_dir.exists THEN [out_dir EXCEPT !.items = @ \cup left]
                                    ELSE out_dir
    /\ UNCHANGED <<ng, clock, progress_log>>

\* the environment: time passes between two statements
Tick ==
    /\ ng.pc \notin {"not called", "returned", "raised"}
    /\ clock.now < MaxClock
    /\ clock' = [clock EXCEPT !.now = @ + 1]
    /\ UNCHANGED <<ng, proc, out_dir, progress_log>>

\* the environment: the wall clock that time.time() reads is set back
ClockSetBack ==
    /\ ng.pc \notin {"not called", "returned", "raised"}
    /\ ~clock.went_back
    /\ clock.now > 0
    /\ clock' = [now |-> clock.now - 1, went_back |-> TRUE]
    /\ UNCHANGED <<ng, proc, out_dir, progress_log>>

----------------------------------------------------------------------------
(* export_json (src/src/utils.py) and the json.loads that reads its bytes  *)
(* back.  A Python value is [t: its type, n: the number of an int or bool, *)
(* s: the characters of a str, items: the elements of a list or tuple, or  *)
(* the keys and values of a dict in turn, in insertion order].  Text is a  *)
(* sequence of characters, bytes a sequence of numbers.                    *)

MaxStrLen == 1      \* longest string in an exported value
MaxItems == 2       \* most elements of a list, most pairs of a dict

PyVal(t, n, s, items) == [t |-> t, n |-> n, s |-> s, items |-> items]
PyNone == PyVal("NoneType", 0, <<>>, <<>>)
PyBool(b) == PyVal("bool", IF b THEN 1 ELSE 0, <<>>, <<>>)
PyInt(n) == PyVal("int", n, <<>>, <<>>)
PyStr(s) == PyVal("str", 0, s, <<>>)
PyList(items) == PyVal("list", 0, <<>>, items)
PyTuple(items) == PyVal("tuple", 0, <<>>, items)
PyDict(items) == PyVal("dict", 0, <<>>, items)

QUOTE == "\""
E_ACUTE == "e-acute U+00E9"            \* a character outside ASCII
LONE_SURROGATE == "surrogate U+D800"   \* a str can hold it, UTF-8 cannot

\* the characters of s repeated n times
RECURSIVE Repeat(_, _)
Repeat(s, n) == IF n <= 0 THEN <<>> ELSE s \o Repeat(s, n - 1)

\* str(n) for an integer
DigitChar(d) ==
    CASE d = 0 -> "0" [] d = 1 -> "1" [] d = 2 -> "2" [] d = 3 -> "3" [] d = 4 -> "4"
      [] d = 5 -> "5" [] d = 6 -> "6" [] d = 7 -> "7" [] d = 8 -> "8" [] d = 9 -> "9"
RECURSIVE NatChars(_)
NatChars(n) == IF n < 10 THEN <<DigitChar(n)>>
               ELSE NatChars(n \div 10) \o <<DigitChar(n % 10)>>
IntChars(n) == IF n < 0 THEN <<"-">> \o NatChars(0 - n) ELSE NatChars(n)

\* the string literal of json.dumps with ensure_ascii=False: quote,
\* backslash and control characters are escaped, everything else is copied
EscapeChar(c) ==
    CASE c = QUOTE -> <<BACKSLASH, QUOTE>>
      [] c = BACKSLASH -> <<BACKSLASH, BACKSLASH>>
      [] c = NL -> <<BACKSLASH, "n">>
      [] OTHER -> <<c>>
RECURSIVE EscapeFrom(_, _)
EscapeFrom(s, i) == IF i > Len(s) THEN <<>> ELSE EscapeChar(s[i]) \o EscapeFrom(s, i + 1)
StringLiteral(s) == <<QUOTE>> \o EscapeFrom(s, 1) \o <<QUOTE>>

\* the key of a dict item as the encoder writes it: a str as it is, an int,
\* a bool and None by their JSON text
KeyChars(k) ==
    CASE k.t = "str" -> k.s
      [] k.t = "int" -> IntChars(k.n)
      [] k.t = "bool" -> IF k.n = 1 THEN <<"t", "r", "u", "e">>
                                    ELSE <<"f", "a", "l", "s", "e">>
      [] k.t = "NoneType" -> <<"n", "u", "l", "l">>

INDENT == 4
Indent(level) == Repeat(<<" ">>, INDENT * level)

\* json.dumps(data, indent=4, ensure_ascii=False)
RECURSIVE Dumps(_, _), DumpElements(_, _, _), DumpMembers(_, _, _)
Dumps(v, level) ==
    CASE v.t = "NoneType" -> <<"n", "u", "l", "l">>
      [] v.t = "bool" -> IF v.n = 1 THEN <<"t", "r", "u", "e">>
                                    ELSE <<"f", "a", "l", "s", "e">>
      [] v.t = "int" -> IntChars(v.n)
      [] v.t = "str" -> StringLiteral(v.s)
      [] v.t \in {"list", "tuple"} ->
            IF v.items = <<>> THEN <<"[", "]">>
            ELSE <<"[", NL>> \o DumpElements(v.items, 1, level + 1)
                 \o <<NL>> \o Indent(level) \o <<"]">>
      [] v.t = "dict" ->
            IF v.items = <<>> THEN <<"{", "}">>
            ELSE <<"{", NL>> \o DumpMembers(v.items, 1, level + 1)
                 \o <<NL>> \o Indent(level) \o <<"}">>
DumpElements(items, i, level) ==
    Indent(level) \o Dumps(items[i], level)
    \o (IF i = Len(items) THEN <<>>
        ELSE <<",", NL>> \o DumpElements(items, i + 1, level))
DumpMembers(items, i, level) ==
    Indent(level) \o StringLiteral(KeyChars(items[i])) \o <<":", " ">>
    \o Dumps(items[i + 1], level)
    \o (IF i + 1 = Len(items) THEN <<>>
        ELSE <<",", NL>> \o DumpMembers(items, i + 2, level))

\* UTF-8: the code of an ASCII character, two bytes for U+00E9
ASCII_CHARS == <<NL, " ", QUOTE, ",", "-", "0", "1", "2", "3", "4", "5", "6", "7", "8",
                 "9", ":", "[", BACKSLASH, "]", "a", "e", "f", "l", "n", "r", "s", "t",
                 "u", "{", "}">>
ASCII_CODES == <<10, 32, 34, 44, 45, 48, 49, 50, 51, 52, 53, 54, 55, 56,
                 57, 58, 91, 92, 93, 97, 101, 102, 108, 110, 114, 115, 116,
                 117, 123, 125>>
E_ACUTE_BYTES == <<195, 169>>
Utf8Of(c) ==
    IF c = E_ACUTE THEN E_ACUTE_BYTES
    ELSE <<ASCII_CODES[CHOOSE i \in 1 .. Len(ASCII_CHARS) : ASCII_CHARS[i] = c]>>
RECURSIVE EncodeFrom(_, _)
EncodeFrom(chars, i) ==
    IF i > Len(chars) THEN <<>> ELSE Utf8Of(chars[i]) \o EncodeFrom(chars, i + 1)

NotExported == [ret |-> "not called", bytes |-> <<>>]
ReturnsNone == [ret |-> "None", bytes |-> <<>>]
ReturnsBytes(b) == [ret |-> "bytes", bytes |-> b]

\* json_string.encode('utf-8'): UnicodeEncodeError for a lone surrogate,
\* which `except Exception` turns into None
EncodeUtf8(chars) ==
    IF \E i \in 1 .. Len(chars) : chars[i] = LONE_SURROGATE
    THEN ReturnsNone
    ELSE ReturnsBytes(EncodeFrom(chars, 1))

\* export_json(data)
export_json(data) ==
    IF data.t \notin {"dict", "list"} THEN ReturnsNone
    ELSE EncodeUtf8(Dumps(data, 0))

\* bytes.decode('utf-8') of what EncodeUtf8 made
RECURSIVE DecodeFrom(_, _)
DecodeFrom(bytes, i) ==
    IF i > Len(bytes) THEN <<>>
    ELSE IF bytes[i] = E_ACUTE_BYTES[1] /\ i + 1 <= Len(bytes)
            /\ bytes[i + 1] = E_ACUTE_BYTES[2]
    THEN <<E_ACUTE>> \o DecodeFrom(bytes, i + 2)
    ELSE <<ASCII_CHARS[CHOOSE j \in 1 .. Len(ASCII_CODES) : ASCII_CODES[j] = bytes[i]]>>
         \o DecodeFrom(bytes, i + 1)

\* int(digits)
DigitValue(c) == CHOOSE d \in 0 .. 9 : DigitChar(d) = c
RECURSIVE NatOf(_, _)
NatOf(chars, n) ==
    IF n = 0 THEN 0 ELSE 10 * NatOf(chars, n - 1) + DigitValue(chars[n])

\* the results of the decoder: a value and the position after it
Parsed(val, pos) == [ok |-> TRUE, val |-> val, pos |-> pos]
ParseError == [ok |-> FALSE, val |-> PyNone, pos |-> 0]
JSON_WS == {" ", NL}
SkipWs(t, p) == IF p > Len(t) THEN p ELSE RunEnd(t, p, JSON_WS)
HasAt(t, p, lit) ==
    p + Len(lit) - 1 <= Len(t) /\ SubSeq(t, p, p + Len(lit) - 1) = lit

\* d[k] = v for the items of a dict: a key that is present keeps its place
DictPut(items, k, v) ==
    IF \E i \in 1 .. Len(items) : i % 2 = 1 /\ items[i] = k
    THEN [items EXCEPT ![(CHOOSE i \in 1 .. Len(items) : i % 2 = 1 /\ items[i] = k) + 1] = v]
    ELSE items \o <<k, v>>

\* the characters of a string literal from p, after the opening quote
RECURSIVE ParseString(_, _, _)
ParseString(t, p, acc) ==
    IF p > Len(t) THEN ParseError
    ELSE IF t[p] = QUOTE THEN Parsed(PyStr(acc), p + 1)
    ELSE IF t[p] = BACKSLASH
    THEN IF p + 1 > Len(t) THEN ParseError
         ELSE IF t[p + 1] = "n" THEN ParseString(t, p + 2, Append(acc, NL))
         ELSE IF t[p + 1] \in {QUOTE, BACKSLASH}
         THEN ParseString(t, p + 2, Append(acc, t[p + 1]))
         ELSE ParseError
    ELSE IF t[p] = NL THEN ParseError      \* a control character in a literal
    ELSE ParseString(t, p + 1, Append(acc, t[p]))

\* json.loads: the value that begins at p, after whitespace
RECURSIVE ParseValue(_, _), ParseElements(_, _, _), ParseMembers(_, _, _)
ParseValue(t, p0) ==
    LET p == SkipWs(t, p0)
    IN  IF p > Len(t) THEN ParseError
        ELSE IF HasAt(t, p, <<"n", "u", "l", "l">>) THEN Parsed(PyNone, p + 4)
        ELSE IF HasAt(t, p, <<"t", "r", "u", "e">>) THEN Parsed(PyBool(TRUE), p + 4)
        ELSE IF HasAt(t, p, <<"f", "a", "l", "s", "e">>) THEN Parsed(PyBool(FALSE), p + 5)
        ELSE IF t[p] = QUOTE THEN ParseString(t, p + 1, <<>>)
        ELSE IF t[p] \in DIGITS
        THEN LET q == RunEnd(t, p, DIGITS)
             IN  Parsed(PyInt(NatOf(SubSeq(t, p, q - 1), q - p)), q)
        ELSE IF t[p] = "-" /\ p + 1 <= Len(t) /\ t[p + 1] \in DIGITS
        THEN LET q == RunEnd(t, p + 1, DIGITS)
             IN  Parsed(PyInt(0 - NatOf(SubSeq(t, p + 1, q - 1), q - p - 1)), q)
        ELSE IF t[p] = "["
        THEN LET q == SkipWs(t, p + 1)
             IN  IF q <= Len(t) /\ t[q] = "]" THEN Parsed(PyList(<<>>), q + 1)
                 ELSE ParseElements(t, q, <<>>)
        ELSE IF t[p] = "{"
        THEN LET q == SkipWs(t, p + 1)
             IN  IF q <= Len(t) /\ t[q] = "}" THEN Parsed(PyDict(<<>>), q + 1)
                 ELSE ParseMembers(t, q, <<>>)
        ELSE ParseError
ParseElements(t, p, acc) ==
    LET r == ParseValue(t, p)
        q == SkipWs(t, r.pos)
    IN  IF ~r.ok \/ q > Len(t) THEN ParseError
        ELSE IF t[q] = "," THEN ParseElements(t, q + 1, Append(acc, r.val))
        ELSE IF t[q] = "]" THEN Parsed(PyList(Append(acc, r.val)), q + 1)
        ELSE ParseError
ParseMembers(t, p, acc) ==
    LET p1 == SkipWs(t, p)
        k == IF p1 <= Len(t) /\ t[p1] = QUOTE THEN ParseString(t, p1 + 1, <<>>)
                                              ELSE ParseError
        c == SkipWs(t, k.pos)
        r == IF k.ok /\ c <= Len(t) /\ t[c] = ":" THEN ParseValue(t, c + 1) ELSE ParseError
        q == SkipWs(t, r.pos)
    IN  IF ~r.ok \/ q > Len(t) THEN ParseError
        ELSE IF t[q] = "," THEN ParseMembers(t, q + 1, DictPut(acc, k.val, r.val))
        ELSE IF t[q] = "}" THEN Parsed(PyDict(DictPut(acc, k.val, r.val)), q + 1)
        ELSE ParseError

NotParsed == [ok |-> FALSE, val |-> PyNone, pos |-> 0 - 1]

\* json.loads(bytes)
json_loads(bytes) ==
    LET t == DecodeFrom(bytes, 1)
        r == ParseValue(t, 1)
    IN  IF r.ok /\ SkipWs(t, r.pos) = Len(t) + 1 THEN Parsed(r.val, Len(t) + 1)
        ELSE ParseError

\* the values handed to export_json: scalars, and lists and dicts of
\* scalars and of small lists and dicts
EXPORT_CHARS == {"a", E_ACUTE, QUOTE, BACKSLASH, NL, LONE_SURROGATE}
RECURSIVE SeqsUpTo(_, _)
SeqsUpTo(S, n) ==
    IF n = 0 THEN {<<>>}
    ELSE SeqsUpTo(S, n - 1) \cup {Append(s, x) : s \in SeqsUpTo(S, n - 1), x \in S}
EXPORT_INTS == {0, 0 - 3, 12}
ExportScalars ==
    {PyNone, PyBool(TRUE), PyBool(FALSE)} \cup {PyInt(n) : n \in EXPORT_INTS}
    \cup {PyStr(s) : s \in SeqsUpTo(EXPORT_CHARS, MaxStrLen)}
ExportKeys == {PyStr(<<"a">>), PyStr(<<E_ACUTE>>), PyInt(1)}
ExportLeaves == {PyNone, PyInt(12), PyStr(<<E_ACUTE>>)}
ExportInner ==
    ExportScalars \cup {PyList(<<>>), PyDict(<<>>)}
    \cup {PyList(<<x>>) : x \in ExportLeaves}
    \cup {PyDict(<<k, x>>) : k \in ExportKeys, x \in ExportLeaves}
RECURSIVE DictItemsUpTo(_)
DictItemsUpTo(n) ==
    IF n = 0 THEN {<<>>}
    ELSE DictItemsUpTo(n - 1)
         \cup {d \o <<kv[1], kv[2]>> :
                 <<d, kv>> \in {x \in DictItemsUpTo(n - 1) \X (ExportKeys \X ExportInner) :
                                  \A i \in 1 .. Len(x[1]) : i % 2 = 1 => x[1][i] # x[2][1]}}
ExportInputs ==
    ExportScalars \cup {PyTuple(<<PyInt(12)>>)}
    \cup {PyList(items) : items \in SeqsUpTo(ExportInner, MaxItems)}
    \cup {PyDict(items) : items \in DictItemsUpTo(MaxItems)}

IdleExport == export_in = PyNone /\ export_out = NotExported /\ parsed = NotParsed

\* the call of export_json
ExportJson ==
    /\ export_out = NotExported
    /\ export_in \in ExportInputs
    /\ export_out' = export_json(export_in)
    /\ UNCHANGED <<export_in, parsed>>

\* the reader of the download: json.loads of the bytes
JsonLoads ==
    /\ export_out.ret = "bytes"
    /\ parsed = NotParsed
    /\ parsed' = json_loads(export_out.bytes)
    /\ UNCHANGED <<export_in, export_out>>

\* the state each specification starts from, and keeps for the parts it
\* does not use
IdleSession ==
    /\ selected_pdf_file = NoPdf
    /\ selected_parser_names = <<>>
    /\ page_range = NoRange
    /\ results_data = <<>>
    /\ calls = <<>>
IdleBackend == b_call = NoCall /\ b_out = NoOutcome
IdleMetrics == text_content = Str(<<>>) /\ metrics = NoMetrics
IdleChunk == chunk_args = NoArgs /\ preview = NoPreview /\ splitter_calls = 0
IdleCache == cache = {} /\ history = <<>>
IdleRun == run_pc = "idle" /\ run_idx = 0 /\ current_results = <<>>

Init == IdleSession /\ IdleBackend /\ IdleMetrics /\ IdleChunk /\ IdleCache /\ IdleRun /\ IdleNougat /\ IdleExport

\* the user picks a file (or clears the selection); the script reruns and
\* shows st.session_state.results_data again
SelectPdf(f) ==
    /\ f # selected_pdf_file
    /\ selected_pdf_file' = f
    /\ UNCHANGED <<selected_parser_names, page_range, results_data, calls>>

\* the user sets the sidebar and clicks "Parse / Compare": the script run
\* that executes the loop, stores current_results and calls st.rerun()
ParseCompare(names, pr) ==
    /\ selected_pdf_file # NoPdf
    /\ \E envs \in RunEnvs(names, PageCountOf(selected_pdf_file), pr) :
         LET run == RunLoop([results |-> <<>>, log |-> <<>>], names, envs, 1)
         IN  /\ results_data' = run.results
             /\ calls' = run.log
    /\ selected_parser_names' = names
    /\ page_range' = pr
    /\ UNCHANGED selected_pdf_file

Next ==
    \/ \E f \in PDF_FILES \cup {NoPdf} :
          SelectPdf(f) /\ UNCHANGED session_frame
    \/ \E names \in Selections, pr \in UiPageRanges :
          ParseCompare(names, pr) /\ UNCHANGED session_frame

Spec == Init /\ [][Next]_vars

\* SpecBackend
InitB == InitBackend /\ IdleSession /\ IdleMetrics /\ IdleChunk /\ IdleCache /\ IdleRun /\ IdleNougat /\ IdleExport

NextB ==
    \/ CallPymupdf /\ UNCHANGED backend_frame
    \/ CallPdfplumber /\ UNCHANGED backend_frame
    \/ CallOcr /\ UNCHANGED backend_frame
    \/ CallNougat /\ UNCHANGED backend_frame
    \/ CallGrobid /\ UNCHANGED backend_frame

SpecBackend == InitB /\ [][NextB]_vars

\* SpecMetrics
InitM ==
    /\ text_content \in MetricsInputs
    /\ metrics = NoMetrics
    /\ IdleSession /\ IdleBackend /\ IdleChunk /\ IdleCache /\ IdleRun /\ IdleNougat /\ IdleExport

NextM == CalculateMetrics /\ UNCHANGED metrics_frame

SpecMetrics == InitM /\ [][NextM]_vars

\* SpecChunk
InitC ==
    /\ chunk_args \in ChunkArgs
    /\ preview = NoPreview
    /\ splitter_calls = 0
    /\ IdleSession /\ IdleBackend /\ IdleMetrics /\ IdleCache /\ IdleRun /\ IdleNougat /\ IdleExport

NextC == GetChunkingPreview /\ UNCHANGED chunk_frame

SpecChunk == InitC /\ [][NextC]_vars

----------------------------------------------------------------------------
(* SpecCache: the backends behind @st.cache_data.  The decorator keys an   *)
(* entry by the function and the values of its parameters, leaving out the *)
(* parameters whose name begins with an underscore; it stores the value a  *)
(* call returns (an exception stores nothing) and, without ttl and         *)
(* max_entries, never drops an entry.                                      *)

MaxRequests == 3    \* requests made to the cached backends

\* the keyed parameter of each backend besides pdf_path and page_range, at
\* its default and at another value
DEFAULT_PARAM == "default"
OTHER_PARAM == "other"
HasParam(fn) == fn \in {"parse_ocr", "parse_nougat", "parse_grobid"}
CALLBACKS == {"update_progress of run 1", "update_progress of run 2"}
NO_CALLBACK == "None"

\* the calls: the base call of each backend and the calls that differ from
\* it in one parameter, each with what the environment makes of the body
CacheCalls ==
    {c \in [fn : BACKENDS, pdf_path : PDF_FILES, page_range : {NoRange, <<1, 1>>},
            param : {DEFAULT_PARAM, OTHER_PARAM},
            callback : CALLBACKS \cup {NO_CALLBACK},
            fault : {"none", "open", "page", "makedirs"}, has_is_open : BOOLEAN] :
        /\ Cardinality({x \in {"path", "range", "param"} :
                          \/ (x = "path" /\ c.pdf_path # "a.pdf")
                          \/ (x = "range" /\ c.page_range # NoRange)
                          \/ (x = "param" /\ c.param # DEFAULT_PARAM)}) <= 1
        /\ (~HasParam(c.fn) => c.param = DEFAULT_PARAM)
        /\ (c.fn = "parse_grobid" => c.page_range = NoRange)
        /\ (c.callback # NO_CALLBACK <=> c.fn = "parse_nougat")
        /\ c.fault \in FaultsOf(c.fn)
        /\ (c.fault = "page" <=> c.fn = "parse_ocr")
        /\ (c.has_is_open <=> c.fault # "page")}

\* the body of the decorated function
Body(c) ==
    CASE c.fn = "parse_pymupdf" ->
            parse_pymupdf(PageCountOf(c.pdf_path), c.page_range, c.fault)
      [] c.fn = "parse_pdfplumber" ->
            parse_pdfplumber(PageCountOf(c.pdf_path), c.page_range, c.fault)
      [] c.fn = "parse_ocr" ->
            parse_ocr(PageCountOf(c.pdf_path), c.page_range, c.fault, c.has_is_open)
      [] c.fn = "parse_nougat" ->
            parse_nougat(PageCountOf(c.pdf_path), c.page_range, c.fault)
      [] c.fn = "parse_grobid" ->
            parse_grobid(PageCountOf(c.pdf_path), c.fault)

\* the key of a call: _progress_callback is not hashed
CacheKey(c) ==
    [fn |-> c.fn, pdf_path |-> c.pdf_path, page_range |-> c.page_range, param |-> c.param]

CacheHit(entries, key) == \E e \in entries : e.key = key
CacheLookup(entries, key) == (CHOOSE e \in entries : e.key = key).val

\* a cache that keeps only the results without error
CacheStoreSuccessOnly(entries, key, out) ==
    IF out.ret = "return" /\ ~HasError(out.val)
    THEN entries \cup {[key |-> key, val |-> out.val]}
    ELSE entries

\* the value a call returned is stored, with or without an error in it; a
\* call that raised stores nothing
CacheStore(entries, key, out) ==
    IF out.ret = "return" THEN entries \cup {[key |-> key, val |-> out.val]}
                          ELSE entries

\* one call of a decorated backend
CachedCall(c) ==
    /\ Len(history) < MaxRequests
    /\ IF CacheHit(cache, CacheKey(c))
       THEN /\ history' = Append(history,
                    [call |-> c, ran |-> FALSE,
                     out |-> Returns(CacheLookup(cache, CacheKey(c)))])
            /\ UNCHANGED cache
       ELSE /\ history' = Append(history, [call |-> c, ran |-> TRUE, out |-> Body(c)])
            /\ cache' = CacheStore(cache, CacheKey(c), Body(c))

InitK == IdleCache /\ IdleSession /\ IdleBackend /\ IdleMetrics /\ IdleChunk /\ IdleRun /\ IdleNougat /\ IdleExport

NextK == \E c \in CacheCalls : CachedCall(c) /\ UNCHANGED cache_frame

SpecCache == InitK /\ [][NextK]_vars

----------------------------------------------------------------------------
(* SpecRun: the script run of a Parse/Compare click, one loop iteration at *)
(* a time, with page_range = None ("Parse all pages", the default).  The   *)
(* script run can be stopped at any point of the loop: Streamlit stops a   *)
(* running script when the user touches a widget or stops the app, with an *)
(* exception that `except Exception` does not catch.                       *)

\* a run that goes on from the stored ResultSet
StartResultsCarried == results_data

\* current_results = {}
StartResults == <<>>

\* the click: `if parse_button:` up to the head of the for loop
StartRun(names) ==
    /\ run_pc # "loop"
    /\ selected_pdf_file # NoPdf
    /\ run_pc' = "loop"
    /\ run_idx' = 0
    /\ current_results' = StartResults
    /\ calls' = <<>>
    /\ selected_parser_names' = names
    /\ page_range' = NoRange
    /\ UNCHANGED <<selected_pdf_file, results_data>>

\* one iteration of `for parser_name in selected_parser_names`
Iterate ==
    /\ run_pc = "loop"
    /\ run_idx < Len(selected_parser_names)
    /\ \E env \in IterationEnvs(selected_parser_names[run_idx + 1],
                                PageCountOf(selected_pdf_file), page_range) :
         LET st == LoopBody([results |-> current_results, log |-> calls],
                            selected_parser_names[run_idx + 1], env)
         IN  /\ current_results' = st.results
             /\ calls' = st.log
    /\ run_idx' = run_idx + 1
    /\ UNCHANGED <<run_pc, selected_pdf_file, selected_parser_names, page_range,
                   results_data>>

\* after the loop: st.session_state.results_data = current_results, then
\* st.rerun()
StoreResults ==
    /\ run_pc = "loop"
    /\ run_idx = Len(selected_parser_names)
    /\ results_data' = current_results
    /\ run_pc' = "stored"
    /\ current_results' = <<>>
    /\ UNCHANGED <<run_idx, calls, selected_pdf_file, selected_parser_names, page_range>>

\* the script run is stopped before line 228: its locals are gone
Interrupt ==
    /\ run_pc = "loop"
    /\ run_pc' = "interrupted"
    /\ current_results' = <<>>
    /\ UNCHANGED <<run_idx, calls, selected_pdf_file, selected_parser_names, page_range,
                   results_data>>

InitR ==
    /\ selected_pdf_file \in PDF_FILES
    /\ selected_parser_names = <<>>
    /\ page_range = NoRange
    /\ results_data = <<>>
    /\ calls = <<>>
    /\ IdleRun /\ IdleBackend /\ IdleMetrics /\ IdleChunk /\ IdleCache /\ IdleNougat /\ IdleExport

NextR ==
    \/ \E names \in Selections : StartRun(names) /\ UNCHANGED run_frame
    \/ Iterate /\ UNCHANGED run_frame
    \/ StoreResults /\ UNCHANGED run_frame
    \/ Interrupt /\ UNCHANGED run_frame

SpecRun == InitR /\ [][NextR]_vars

----------------------------------------------------------------------------
(* SpecNougat: the specification *)

InitN ==
    /\ \E t \in 1 .. MaxTimeout, cb \in BOOLEAN :
          ng = [NoNg EXCEPT !.pc = "makedirs", !.timeout = t, !.has_callback = cb]
    /\ proc = NoProc /\ out_dir = NoDir
    /\ clock \in {[now |-> n, went_back |-> FALSE] : n \in 0 .. 1}
    /\ progress_log = <<>>
    /\ IdleSession /\ IdleBackend /\ IdleMetrics /\ IdleChunk /\ IdleCache /\ IdleRun
    /\ IdleExport

NextN ==
    \/ NgMakedirs /\ UNCHANGED nougat_frame
    \/ NgOpenDoc /\ UNCHANGED nougat_frame
    \/ NgFirstCallback /\ UNCHANGED nougat_frame
    \/ NgPopen /\ UNCHANGED nougat_frame
    \/ NgLoopProgress /\ UNCHANGED nougat_frame
    \/ NgLoopCheck /\ UNCHANGED nougat_frame
    \/ NgLoopPoll /\ UNCHANGED nougat_frame
    \/ NgSleep /\ UNCHANGED nougat_frame
    \/ NgCheckReturncode /\ UNCHANGED nougat_frame
    \/ NgReadOutput /\ UNCHANGED nougat_frame
    \/ NgCleanup /\ UNCHANGED nougat_frame
    \/ \E rc \in {0, 1}, left \in TOOL_LEAVINGS :
          ProcExit(rc, left) /\ UNCHANGED nougat_frame
    \/ Tick /\ UNCHANGED nougat_frame
    \/ ClockSetBack /\ UNCHANGED nougat_frame

SpecNougat == InitN /\ [][NextN]_vars

----------------------------------------------------------------------------
(* SpecExport: export_json applied to a value, and its bytes read back *)

InitX ==
    /\ export_in \in ExportInputs
    /\ export_out = NotExported
    /\ parsed = NotParsed
    /\ IdleSession /\ IdleBackend /\ IdleMetrics /\ IdleChunk /\ IdleCache /\ IdleRun
    /\ IdleNougat

NextX ==
    \/ ExportJson /\ UNCHANGED export_frame
    \/ JsonLoads /\ UNCHANGED export_frame

SpecExport == InitX /\ [][NextX]_vars

----------------------------------------------------------------------------
(* Properties of the Parse/Compare run (Spec) *)

\* the invocation of the last run made for the selected parser `name`
CallOf(name) == calls[CHOOSE i \in 1 .. Len(calls) : calls[i].key = name]
FallbackCalls == {i \in 1 .. Len(calls) : calls[i].key = FALLBACK_KEY}

\* C1: in a run with two selected backends, in either order, when the call
\* of one raised and the other returned a result without error, the stored
\* ResultSet holds the error entry naming the first and, unchanged, the
\* result of the second.
C1_FailureIsolated ==
    Len(selected_parser_names) = 2 =>
        \A a \in 1 .. 2 :
            LET A == selected_parser_names[a]
                B == selected_parser_names[3 - a]
            IN  (/\ CallOf(A).ret = "raise"
                 /\ CallOf(B).ret = "return"
                 /\ ~HasError(CallOf(B).val))
                => /\ A \in DictKeys(results_data)
                   /\ DictVal(results_data, A) = ExecError(A)
                   /\ HasError(DictVal(results_data, A))
                   /\ B \in DictKeys(results_data)
                   /\ DictVal(results_data, B) = CallOf(B).val
                   /\ ~HasError(DictVal(results_data, B))

\* a run whose first backend raised and whose second returned content
C1_Witness ==
    /\ Len(selected_parser_names) = 2
    /\ CallOf(selected_parser_names[1]).ret = "raise"
    /\ CallOf(selected_parser_names[2]).ret = "return"
    /\ ~HasError(CallOf(selected_parser_names[2]).val)
    /\ CallOf(selected_parser_names[2]).val.pages # {}
    /\ Len(results_data) = 2

\* C2: whenever Nougat returned a result with error set (OCR being
\* registered), the ResultSet holds that result unchanged under "Nougat" and
\* an entry under "OCR Fallback", which is the fallback's result when the
\* OCR call succeeded; the fallback was invoked exactly once and "OCR
\* (Tesseract)" holds nothing but the user's own OCR run.
C2_FallbackPolicy ==
    \A i \in 1 .. Len(calls) :
        (/\ calls[i].key = "Nougat"
         /\ calls[i].ret = "return"
         /\ HasError(calls[i].val)
         /\ "OCR (Tesseract)" \in DOMAIN PARSER_OPTIONS)
        => /\ "Nougat" \in DictKeys(results_data)
           /\ DictVal(results_data, "Nougat") = calls[i].val
           /\ FALLBACK_KEY \in DictKeys(results_data)
           /\ Cardinality(FallbackCalls) = 1
           /\ \A j \in FallbackCalls :
                (calls[j].ret = "return" /\ ~HasError(calls[j].val))
                => DictVal(results_data, FALLBACK_KEY) = calls[j].val
           /\ ("OCR (Tesseract)" \in DictKeys(results_data)
                => \E k \in 1 .. Len(selected_parser_names) :
                      selected_parser_names[k] = "OCR (Tesseract)")

\* C3: when the Nougat call itself raised, the ResultSet holds the converted
\* error under "Nougat" and the OCR fallback was still invoked and stored
\* under "OCR Fallback".
C3_FallbackAfterRaise ==
    \A i \in 1 .. Len(calls) :
        (calls[i].key = "Nougat" /\ calls[i].ret = "raise")
        => /\ "Nougat" \in DictKeys(results_data)
           /\ DictVal(results_data, "Nougat") = ExecError("Nougat")
           /\ FallbackCalls # {}
           /\ FALLBACK_KEY \in DictKeys(results_data)

----------------------------------------------------------------------------
(* Properties of one backend call (SpecBackend) *)

\* the backends that take page_range
RANGED_BACKENDS == {"parse_pymupdf", "parse_pdfplumber", "parse_ocr", "parse_nougat"}

Called == b_out.ret # "not called"

\* C4: for a page range (s, e) with 1 <= s <= e <= total_pages, a backend
\* that is given the range extracts pages s..e and no other page.
C4_ExactPages ==
    (/\ Called
     /\ b_call.fn \in RANGED_BACKENDS
     /\ b_call.page_range # NoRange
     /\ 1 <= b_call.page_range[1]
     /\ b_call.page_range[1] <= b_call.page_range[2]
     /\ b_call.page_range[2] <= b_call.page_count)
    => /\ b_out.val.pages \subseteq b_call.page_range[1] .. b_call.page_range[2]
       /\ (b_out.ret = "return" /\ ~HasError(b_out.val))
            => b_out.val.pages = b_call.page_range[1] .. b_call.page_range[2]

\* C5: for a page range (s, e) with s > e or s < 1, a backend that is given
\* the range returns a result with error set and no content field populated.
C5_DegenerateRangeRejected ==
    (/\ Called
     /\ b_call.fn \in RANGED_BACKENDS
     /\ b_call.page_range # NoRange
     /\ (b_call.page_range[1] > b_call.page_range[2] \/ b_call.page_range[1] < 1))
    => /\ b_out.ret = "return"
       /\ HasError(b_out.val)
       /\ b_out.val.pages = {}
       /\ ~b_out.val.metadata
       /\ ~b_out.val.tables

\* C6: no backend function raises to its caller, whichever step fails.
C6_NeverRaises == b_out.ret # "raise"

----------------------------------------------------------------------------
(* Properties of calculate_metrics (SpecMetrics) *)

MetricsComputed == metrics # NoMetrics /\ text_content.is_str

\* $$body$$ and $body$ with a body free of $ and of backslashes (which would
\* escape the closing delimiter), the inline body on one line
IsDisplaySpan(t) ==
    /\ Len(t) >= 5
    /\ t[1] = "$" /\ t[2] = "$" /\ t[Len(t) - 1] = "$" /\ t[Len(t)] = "$"
    /\ \A k \in 3 .. (Len(t) - 2) : t[k] \notin {"$", BACKSLASH}
IsInlineSpan(t) ==
    /\ Len(t) >= 3
    /\ t[1] = "$" /\ t[Len(t)] = "$"
    /\ \A k \in 2 .. (Len(t) - 1) : t[k] \notin {"$", BACKSLASH, NL}

\* C7: a text that is one display span $$body$$ has
\* estimated_equation_count 1, and so has a text that is one inline span
\* $body$.
C7_SpanCountedOnce ==
    (MetricsComputed /\ (IsDisplaySpan(text_content.chars) \/ IsInlineSpan(text_content.chars)))
    => metrics.estimated_equation_count = 1

\* the whitespace a line can hold
INLINE_WS == WS \ {NL}
LineStarts(t) == {p \in 1 .. (Len(t) + 1) : LineStart(t, p)}

\* the line at p begins (after indentation, where allowed) with 1 to 6 '#'
\* followed by whitespace
HeaderLine(t, p, indent_ok) ==
    LET q == IF indent_ok THEN RunEnd(t, p, INLINE_WS) ELSE p
        m == RunEnd(t, q, {"#"})
    IN  m - q >= 1 /\ m - q <= HeaderMaxLevel /\ m <= Len(t) /\ t[m] \in INLINE_WS

\* the line at p begins with an integer followed by '.' and whitespace
NumberedLine(t, p, indent_ok) ==
    LET q == IF indent_ok THEN RunEnd(t, p, INLINE_WS) ELSE p
        m == RunEnd(t, q, DIGITS)
    IN  /\ m - q >= 1 /\ m <= Len(t) /\ t[m] = "."
        /\ m + 1 <= Len(t) /\ t[m + 1] \in INLINE_WS

LinesCounted(t, indent_ok) ==
    Cardinality({p \in LineStarts(t) : HeaderLine(t, p, indent_ok)})
    + Cardinality({p \in LineStarts(t) : NumberedLine(t, p, indent_ok)})

\* the line at p is a marker alone: '#'s or 'N.' with nothing but
\* whitespace after it
MarkerOnlyLine(t, p) ==
    LET q == RunEnd(t, p, INLINE_WS)
        h == RunEnd(t, q, {"#"})
        d == RunEnd(t, q, DIGITS)
        AtLineEnd(r) == r = Len(t) + 1 \/ t[r] = NL
    IN  \/ (h - q >= 1 /\ h - q <= HeaderMaxLevel /\ AtLineEnd(RunEnd(t, h, INLINE_WS)))
        \/ (d - q >= 1 /\ d <= Len(t) /\ t[d] = "."
              /\ AtLineEnd(RunEnd(t, d + 1, INLINE_WS)))

NoMarkerOnlyLine(t) == \A p \in LineStarts(t) : ~MarkerOnlyLine(t, p)

\* C10 as stated, on the texts no line of which is a marker alone:
\* estimated_section_count is the number of lines that begin with 1 to 6 '#'
\* followed by whitespace plus the number of lines that begin with an integer
\* followed by '.' and whitespace, a line with leading spaces before the
\* marker not being counted.
C10_CountsUnindentedLines ==
    (MetricsComputed /\ NoMarkerOnlyLine(text_content.chars)) =>
        metrics.estimated_section_count = LinesCounted(text_content.chars, FALSE)

\* C10 amended: in a text no line of which is a marker alone,
\* estimated_section_count is the number of lines that begin, after optional
\* leading whitespace, with 1 to 6 '#' followed by whitespace plus the number
\* of lines that begin, after optional leading whitespace, with an integer
\* followed by '.' and whitespace; seven '#' are not counted.
C10_CountsIndentedLines ==
    (MetricsComputed /\ NoMarkerOnlyLine(text_content.chars)) =>
        metrics.estimated_section_count = LinesCounted(text_content.chars, TRUE)

\* an indented header line and a numbered line, both counted
C10_Witness ==
    /\ MetricsComputed
    /\ NoMarkerOnlyLine(text_content.chars)
    /\ Len(text_content.chars) >= 2
    /\ text_content.chars[1] = " " /\ text_content.chars[2] = "#"
    /\ LinesCounted(text_content.chars, FALSE) = 1
    /\ metrics.estimated_section_count = 2

----------------------------------------------------------------------------
(* Properties of get_chunking_preview (SpecChunk) *)

PreviewComputed == preview # NoPreview

RULE_MESSAGES == {"Chunk size must be positive", "Chunk overlap cannot be negative",
                  "Chunk overlap must be smaller than chunk size"}

Rejected(a) ==
    a.chunk_size <= 0 \/ a.chunk_overlap < 0 \/ a.chunk_overlap >= a.chunk_size

\* the message of the first rule that chunk_size and chunk_overlap violate
RuleMessage(a) ==
    IF a.chunk_size <= 0 THEN "Chunk size must be positive"
    ELSE IF a.chunk_overlap < 0 THEN "Chunk overlap cannot be negative"
    ELSE "Chunk overlap must be smaller than chunk size"

\* C8: for a string text and any integers chunk_size and chunk_overlap the
\* call returns; it returns the error result of a rule (empty chunks,
\* total_chunks 0, the rule's own message, the splitter not invoked) exactly
\* when chunk_size <= 0, chunk_overlap < 0 or chunk_overlap >= chunk_size,
\* and with the recursive strategy and a splitter that returns, it reports no
\* error otherwise.
C8_ValidationReported ==
    PreviewComputed =>
        /\ preview.ret = "return"
        /\ chunk_args.is_str =>
            /\ Rejected(chunk_args) =>
                /\ preview.error = RuleMessage(chunk_args)
                /\ preview.chunks = <<>>
                /\ preview.total_chunks = 0
                /\ splitter_calls = 0
            /\ ~Rejected(chunk_args) => preview.error \notin RULE_MESSAGES
            /\ (/\ ~Rejected(chunk_args)
                /\ chunk_args.strategy = "recursive"
                /\ chunk_args.splitter # SPLITTER_RAISES)
               => (preview.error = None /\ splitter_calls = 1)

\* chunk_overlap = chunk_size > 0 was rejected
C8_Witness ==
    /\ PreviewComputed
    /\ chunk_args.is_str
    /\ chunk_args.chunk_size > 0
    /\ chunk_args.chunk_overlap = chunk_args.chunk_size
    /\ preview.error = "Chunk overlap must be smaller than chunk size"
    /\ splitter_calls = 0

\* the number of chunks the splitter produced for the call
Produced ==
    IF preview.split_calls = 1 /\ chunk_args.splitter # SPLITTER_RAISES
    THEN chunk_args.splitter ELSE 0

----------------------------------------------------------------------------
(* Properties of the consumers of the stored ResultSet (Spec) *)

\* markdown, else text, else structured_text
Precedence(data) ==
    IF "markdown" \in data.keys THEN [key |-> "markdown", pages |-> data.pages]
    ELSE IF "text" \in data.keys THEN [key |-> "text", pages |-> data.pages]
    ELSE IF "structured_text" \in data.keys
    THEN [key |-> "structured_text", pages |-> data.pages]
    ELSE EmptyStr

\* C11: for every entry without error of the stored ResultSet, the text the
\* quality metrics, the chunking preview, the diff view (of a ResultSet of
\* two entries) and the DOCX export take from it is the same one, selected
\* by the precedence markdown, else text, else structured_text.
C11_SamePrecedence ==
    \A i \in 1 .. Len(results_data) :
        LET data == results_data[i].val
        IN  ~HasError(data) =>
                /\ MetricsText(data) = Precedence(data)
                /\ ChunkSourceText(data) = Precedence(data)
                /\ (Len(results_data) = 2 => DiffText(data) = Precedence(data))
                /\ DocxText(data) = Precedence(data)


----------------------------------------------------------------------------
(* Properties of the cached backends (SpecCache) *)

\* the earlier requests with the key of request j whose call returned
EarlierReturned(j) ==
    {i \in 1 .. (j - 1) :
        /\ CacheKey(history[i].call) = CacheKey(history[j].call)
        /\ history[i].out.ret = "return"}

----------------------------------------------------------------------------
(* Properties of the script run (SpecRun) *)

\* the values the invocations of the run in progress returned, and the
\* entries the except clause makes
RunValues ==
    {calls[i].val : i \in {j \in 1 .. Len(calls) : calls[j].ret = "return"}}
    \cup {ExecError(selected_parser_names[i]) : i \in 1 .. Len(selected_parser_names)}

\* C13: a step changes the stored ResultSet only when it is the store that
\* follows the last iteration of the loop: the start of a run, its
\* iterations and its interruption leave the ResultSet of the previous run
\* as it was.  After the store the ResultSet has one entry for each selected
\* backend, no entry but these and "OCR Fallback", and every entry is a
\* value this run made.
C13_StoredAfterLoop ==
    [][/\ (run_pc' # "stored" \/ run_pc = "stored") => results_data' = results_data
       /\ (run_pc' = "stored" /\ run_pc = "loop") =>
            /\ run_idx = Len(selected_parser_names)
            /\ \A i \in 1 .. Len(selected_parser_names) :
                  selected_parser_names[i] \in DictKeys(results_data')
            /\ \A k \in DictKeys(results_data') :
                  /\ k = FALLBACK_KEY
                       \/ \E i \in 1 .. Len(selected_parser_names) :
                             selected_parser_names[i] = k
                  /\ \E i \in 1 .. Len(calls) : calls[i].key = k
                  /\ DictVal(results_data', k) \in RunValues]_vars

\* a run that was interrupted after its first iteration while the ResultSet
\* of the previous run, made by other backends, is still stored
C13_Witness ==
    /\ run_pc = "interrupted"
    /\ run_idx = 1
    /\ Len(selected_parser_names) = 2
    /\ Len(results_data) = 2
    /\ DictKeys(results_data) \cap {selected_parser_names[1], selected_parser_names[2]} = {}


----------------------------------------------------------------------------
(* Properties of one parse_nougat call (SpecNougat) *)

NgReturned == ng.pc = "returned"

\* C14: when parse_nougat has returned, on whichever path, the output
\* directory it created does not exist, whatever the tool left in it.
C14_DirRemoved == NgReturned => ~out_dir.exists


TIMEOUT_ERROR == "Nougat Error: Processing timed out"

\* the step is the timeout check of the poll loop
CheckStep == ng.pc = "loop_check" /\ ng'.pc # "loop_check"
PastDeadline == clock.now - ng.start_time > ng.timeout

C17_ProgressInRange ==
    /\ \A i \in 1 .. Len(progress_log) :
          /\ 0 <= progress_log[i]
          /\ progress_log[i] <= PROGRESS_CAP * ng.timeout
    /\ ~clock.went_back =>
          \A i \in 1 .. (Len(progress_log) - 1) : progress_log[i] <= progress_log[i + 1]
    /\ (ng.has_callback /\ proc.state # "none") =>
          /\ Len(progress_log) = 1 + ng.iterations
          /\ progress_log[1] = 0
    /\ proc.state = "none" => (Len(progress_log) <= 1 /\ ng.iterations = 0)


\* the subprocess exited by itself, within the timeout, with code 0 and
\* <stem>.mmd written
ExitedInTime ==
    /\ proc.state = "exited"
    /\ proc.returncode = 0
    /\ MMD_FILE \in proc.left
    /\ proc.exit_time - ng.start_time <= ng.timeout

\* C20: with a clock that did not go backwards, a call does not report the
\* timeout error for a subprocess that exited by its deadline with code 0
\* and <stem>.mmd written, wherever in the poll loop the exit fell.
C20_NoTimeoutAfterExit ==
    (~clock.went_back /\ ExitedInTime) => ng.error # TIMEOUT_ERROR


----------------------------------------------------------------------------
(* Further properties of the Parse/Compare run (Spec) *)

\* C18: a Parse/Compare run makes at most two backend invocations, an OCR
\* fallback counting as one.
C18_AtMostTwoInvocations == Len(calls) <= 2


\* every field of a result that is populated
PopulatedFields(data) ==
    {k \in TEXT_KEYS : HasText(data, k)}
    \cup (IF "tables" \in data.keys /\ data.tables THEN {"tables"} ELSE {})
    \cup (IF "metadata" \in data.keys /\ data.metadata THEN {"metadata"} ELSE {})

----------------------------------------------------------------------------
(* Properties of export_json (SpecExport) *)

\* C16: for an argument that is a dict or a list, export_json returns bytes
\* and json.loads of them is the argument again; for an argument that is
\* neither, it returns None.
C16_JsonRoundTrip ==
    /\ export_out # NotExported =>
          (IF export_in.t \in {"dict", "list"} THEN export_out.ret = "bytes"
                                               ELSE export_out.ret = "None")
    /\ parsed # NotParsed => (parsed.ok /\ parsed.val = export_in)


\* the documents the invocations of the last completed run were given
ProducedFrom == {calls[i].pdf_path : i \in 1 .. Len(calls)}

\* C21: the ResultSet that is displayed and exported was produced from the
\* currently selected document: every invocation of the run that stored it
\* was given the selected file, which is also the file the export names are
\* derived from.
C21_ResultsOfSelectedPdf ==
    \A i \in 1 .. Len(ResultsShown) :
        ProducedFrom = {BaseFilename(ResultsShown[i].key).pdf}


\* C22: every entry of the stored ResultSet is rendered by the display
\* step, the "OCR Fallback" entry included: the ResultSet holds at most the
\* two entries the display handles.
C22_EveryEntryRendered ==
    /\ Len(ResultsShown) <= 2
    /\ \A i \in 1 .. Len(ResultsShown) : Displayed(ResultsShown, i).shown

====
